---------------------------- MODULE Spec2Model ----------------------------
(***************************************************************************)
(* State-machine model of the transcription service in src/app.py: the     *)
(* add_to_queue producers, the single transcription_worker thread, the     *)
(* body of transcribe_audio_process with its nested fallbacks and its      *)
(* finally block, the api_status observer and the shutdown signal handler. *)
(***************************************************************************)
EXTENDS Integers, Sequences, FiniteSets

\* ------------------------------------------------------------------ bounds

\* Number of tasks (uuid4 task ids) ever created by add_to_queue requests.
MaxTasks == 3

\* Number of concurrent add_to_queue request threads.
NumProducers == 2

\* Longest audio, in whole seconds (total_duration).
MaxDuration == 75

\* Longest window length, in whole seconds (segment_duration).
MaxSegmentDuration == 30

\* Largest number of window results handed to the merge loop.
MaxWindows == 3

\* Largest number of words in the texts of all window results together.
MaxWords == 8

\* Resolution of the sub-segment timestamps: ticks in one second.
TicksPerSecond == 2

\* Longest window length of the timestamped window results, in whole seconds.
MaxSeconds == 3

\* Largest number of sub-segments in all window results together.
MaxSubSegments == 3

\* Most leading words "a" in the text of a window result of the scan inputs.
MaxLeadWords == 12

\* Most words "then" that follow them in the text of the first window result.
MaxPadWords == 8

\* Largest torch.cuda.device_count(), and the largest device id a request
\* names.
MaxDevices == 2

\* Longest gpu_ids list given to load_model and release_model_memory.
MaxDeviceList == 2

\* ------------------------------------------------------------- input sets

TaskIds == 1..MaxTasks

Producers == 1..NumProducers

\* gpu_ids of a task: the empty list (CPU) or a list of device ids.
DeviceLists == {<<>>, <<0>>}

\* selected_language of a task.
Languages == {"auto", "en"}

\* The value of the local variable task when the queue was empty.
NoTask == [id |-> 0, gpu_ids |-> <<>>, language |-> "auto"]

\* The device of a model is the CPU or the CUDA device of an index; this is
\* the value while load_model has not chosen one.
NoDevice == [kind |-> "none", index |-> 0]

\* The properties class Config defines; config.<name> for any other name
\* raises AttributeError.
ConfigProperties ==
    {"SECRET_KEY", "DEBUG", "HOST", "PORT", "MAX_FILE_AGE", "MAX_CONTENT_LENGTH",
     "UPLOAD_FOLDER", "OUTPUT_FOLDER", "MODEL_BASE_PATH", "DEFAULT_MODEL",
     "SUPPORTED_MODELS", "DEFAULT_GPU_IDS", "MAX_GPU_MEMORY", "DEFAULT_LANGUAGE",
     "MAX_CONCURRENT_TRANSCRIPTIONS", "TRANSCRIPTION_TIMEOUT", "LOG_LEVEL",
     "LOG_FILE", "MAX_LOG_SIZE", "LOG_BACKUP_COUNT", "WEBSOCKET_PING_TIMEOUT",
     "WEBSOCKET_PING_INTERVAL", "ALLOWED_EXTENSIONS", "MAX_FILENAME_LENGTH",
     "WORKER_THREADS", "CLEANUP_INTERVAL", "MEMORY_CLEANUP_THRESHOLD"}

\* ------------------------------------------------------------------ state

VARIABLES
    transcription_queue,        \* list of queued task tuples, head first
    active_transcriptions,      \* keys of the dict: ids of registered tasks
    transcription_start_times,  \* keys of the dict
    transcription_timers,       \* keys of the dict
    queue_lock,                 \* "free" or the thread holding the lock
    nextId,                     \* 1 + the number of task tuples built so far
    ppc,                        \* add_to_queue thread -> position
    ptask,                      \* add_to_queue thread -> task tuple it built
    wpc,                        \* position of the worker thread
    task,                       \* worker: the task tuple it popped
    model,                      \* worker: TRUE while the local model is loaded
    language,                   \* worker: language inside transcribe_with_interrupt
    result,                     \* worker: value of result ("unset","text","none")
    exc,                        \* worker: message of the exception in flight
    calls,                      \* calls made for the worker's current task
    written,                    \* output file of the current task was written
    statusEvents,               \* terminal task_update emits of the current task
    spc,                        \* position of the api_status request thread
    sigpc,                      \* position of the signal handler (main thread)
    sigKeys,                    \* signal handler: list(active_transcriptions.keys())
    appended,                   \* history: task ids in append order
    dequeued,                   \* history: task ids in pop order
    queued_position,            \* task id -> 'position' of its 'queued' event
    processing_reported,        \* ids of live tasks with a 'processing' event
    fpc,                        \* transcribe_with_progress: position in its body
    total_duration,             \* len(audio_data) / sample_rate, in seconds
    segment_duration,           \* the window length read from the configuration
    segments,                   \* the list of per-window results
    plan,                       \* (start_time, end_time) of each loop iteration
    current_progress,           \* the float accumulated by the loop
    progress,                   \* display_progress of each loop iteration
    merge_index,                \* number of window results merged so far
    combined_before,            \* history: the merged text before the last merge
    combined_text,              \* the merged text
    all_segments,               \* the merged sub-segments
    gpu_id_list,                \* gpu_ids given to load_model and release_model_memory
    cuda,                       \* torch.cuda: availability, device count, failing devices
    cached,                     \* devices whose allocator cache is not emptied
    cached_once,                \* history: cached after the first release
    releases,                   \* number of release_model_memory calls made
    device,                     \* the device load_model moved the model to
    returned,                   \* what the last call gave its caller
    apc,                        \* position of the api_transcribe request thread
    api_model,                  \* api_transcribe: TRUE while its local model is loaded
    gpc,                        \* position of the api_progress request thread
    progress_task,              \* api_progress: task_id of the last request, or 0
    answer                      \* api_progress: 'status' of its last response

vars == <<transcription_queue, active_transcriptions, transcription_start_times,
          transcription_timers, queue_lock, nextId, ppc, ptask, wpc, task, model,
          language, result, exc, calls, written, statusEvents, spc, sigpc, sigKeys,
          appended, dequeued, queued_position, processing_reported, fpc,
          total_duration, segment_duration, segments, plan, current_progress,
          progress, merge_index, combined_before, combined_text, all_segments,
          gpu_id_list, cuda, cached, cached_once, releases, device, returned, apc,
          api_model, gpc, progress_task, answer>>

signalVars == <<sigpc, sigKeys>>

sharedVars == <<transcription_queue, active_transcriptions,
                transcription_start_times, transcription_timers>>

producerVars == <<nextId, ppc, ptask>>

workerVars == <<wpc, task, model, language, result, exc, calls, written, statusEvents>>

eventVars == <<queued_position, processing_reported>>

windowVars == <<fpc, total_duration, segment_duration, segments, plan,
                current_progress, progress, merge_index, combined_before,
                combined_text, all_segments>>

deviceVars == <<gpu_id_list, cuda, cached, cached_once, releases, device, returned>>

apiVars == <<apc, api_model, gpc, progress_task, answer>>

serviceVars == <<signalVars, sharedVars, queue_lock, producerVars, workerVars, spc,
                 appended, dequeued, eventVars, apiVars>>

\* What the threads of the queue service leave alone.
outsideVars == <<windowVars, deviceVars, apiVars>>

\* Calls made for the worker's current task: load_model, detect_language,
\* model.transcribe(file_path), release_model_memory, and entries into the
\* finally block of transcribe_audio_process; and the languages given to the
\* transcribe calls.
NoCalls ==
    [load |-> 0, detect |-> 0, whole |-> 0, release |-> 0, cleanup |-> 0,
     languages |-> {}]

Min(a, b) == IF a < b THEN a ELSE b

Max(a, b) == IF a > b THEN a ELSE b

\* ------------------------------------------------- Python float arithmetic

\* A Python float is an IEEE-754 binary64 number: 53 significant bits, every
\* operation rounded to the nearest such number, ties to the even one. The
\* values of the progress computation lie in [1, 128) and are kept exactly:
\* the whole part as a number, the 52 fraction bits as FractionLimbs digits
\* of LimbBits bits each, most significant first.
SignificantBits == 53

LimbBits == 13

FractionLimbs == 4

RECURSIVE Pow2(_)
Pow2(k) == IF k = 0 THEN 1 ELSE 2 * Pow2(k - 1)

Base == Pow2(LimbBits)

\* float(n) of a small whole number.
ToFloat(n) == [int |-> n, frac |-> [i \in 1..FractionLimbs |-> 0]]

RECURSIVE BitLength(_)
\* The number of bits of a whole number.
BitLength(n) == IF n = 0 THEN 0 ELSE 1 + BitLength(n \div 2)

RECURSIVE AddLimbs(_, _, _)
\* The sum of two fractions of equal length and a carry in, with the carry
\* out of the first digit.
AddLimbs(a, b, c) ==
    IF Len(a) = 0 THEN [limbs |-> <<>>, carry |-> c]
    ELSE LET n == Len(a)
             t == a[n] + b[n] + c
             r == AddLimbs(SubSeq(a, 1, n - 1), SubSeq(b, 1, n - 1), t \div Base)
         IN  [limbs |-> Append(r.limbs, t % Base), carry |-> r.carry]

RoundToNearest_truncate(n, g, guard, sticky) ==
    LET drop == Pow2(BitLength(n) - 1)
    IN  [int |-> n,
         frac |-> [g EXCEPT ![FractionLimbs] = (g[FractionLimbs] \div drop) * drop]]

\* The binary64 nearest to the exact value n + 0.g + guard/Base^(FractionLimbs+1)
\* (+ something smaller when sticky), for 1 <= n < 128: the fraction keeps
\* SignificantBits - BitLength(n) bits, the bits below decide the rounding,
\* ties go to the even neighbour.
RoundToNearest(n, g, guard, sticky) ==
    LET unit == Pow2(BitLength(n) - 1 + LimbBits)
        tail == g[FractionLimbs] * Base + guard
        kept == tail \div unit
        rest == tail % unit
        half == unit \div 2
        up == \/ rest > half
              \/ rest = half /\ (sticky \/ kept % 2 = 1)
        rounded == (IF up THEN kept + 1 ELSE kept) * unit
        zero == [i \in 1..FractionLimbs |-> 0]
        high == AddLimbs(SubSeq(g, 1, FractionLimbs - 1),
                         SubSeq(zero, 1, FractionLimbs - 1),
                         rounded \div (Base * Base))
    IN  [int |-> n + high.carry,
         frac |-> Append(high.limbs, (rounded \div Base) % Base)]

\* x + y of two floats.
FloatAdd(x, y) ==
    LET r == AddLimbs(x.frac, y.frac, 0)
    IN  RoundToNearest(x.int + y.int + r.carry, r.limbs, 0, FALSE)

RECURSIVE LongDivision(_, _, _, _)
\* Long division by d of the digits g, from the remainder r.
LongDivision(r, d, g, q) ==
    IF Len(g) = 0 THEN [limbs |-> q, rem |-> r]
    ELSE LongDivision((r * Base + g[1]) % d, d, SubSeq(g, 2, Len(g)),
                      Append(q, (r * Base + g[1]) \div d))

\* x / d of a float and a small whole number, the quotient at least 1.
FloatDivide(x, d) ==
    LET r == LongDivision(x.int % d, d, Append(x.frac, 0), <<>>)
    IN  RoundToNearest(x.int \div d, SubSeq(r.limbs, 1, FractionLimbs),
                       r.limbs[FractionLimbs + 1], r.rem # 0)

\* int(x) of a float.
FloatToInt(x) == x.int

\* The state after the module is loaded and the worker thread is started.
ServiceInit ==
    /\ transcription_queue = <<>>
    /\ active_transcriptions = {}
    /\ transcription_start_times = {}
    /\ transcription_timers = {}
    /\ queue_lock = "free"
    /\ nextId = 1
    /\ ppc = [p \in Producers |-> "idle"]
    /\ ptask = [p \in Producers |-> NoTask]
    /\ wpc = "idle"
    /\ task = NoTask
    /\ model = FALSE
    /\ language = "auto"
    /\ result = "unset"
    /\ exc = "none"
    /\ calls = NoCalls
    /\ written = FALSE
    /\ statusEvents = <<>>
    /\ spc = "idle"
    /\ sigpc = "none"
    /\ sigKeys = {}
    /\ appended = <<>>
    /\ dequeued = <<>>
    /\ queued_position = [id \in TaskIds |-> 0]
    /\ processing_reported = {}
    /\ apc = "idle"
    /\ api_model = FALSE
    /\ gpc = "idle"
    /\ progress_task = 0
    /\ answer = "none"

\* No call of transcribe_with_progress has reached its window loop.
WindowInit ==
    /\ fpc = "none"
    /\ total_duration = 0
    /\ segment_duration = 0
    /\ segments = <<>>
    /\ plan = <<>>
    /\ current_progress = ToFloat(15)
    /\ progress = <<>>
    /\ merge_index = 0
    /\ combined_before = <<>>
    /\ combined_text = <<>>
    /\ all_segments = <<>>

\* No call of load_model or release_model_memory is looked at on its own.
DeviceIdle ==
    /\ gpu_id_list = <<>>
    /\ cuda = [available |-> FALSE, device_count |-> 0, broken |-> {}]
    /\ cached = {}
    /\ cached_once = {}
    /\ releases = 0
    /\ device = NoDevice
    /\ returned = "none"

Init == ServiceInit /\ WindowInit /\ DeviceIdle

\* -------------------------------------------------- operations on state

\* transcription_queue.append(task tuple)
QueueAppend(q, t) == Append(q, t)

QueuePop_last(q) == [item |-> q[Len(q)], rest |-> SubSeq(q, 1, Len(q) - 1)]

QueuePop_peek(q) == [item |-> Head(q), rest |-> q]

\* transcription_queue.pop(0): the element returned and the list left behind.
QueuePop(q) == [item |-> Head(q), rest |-> Tail(q)]

QueuePosition_index(q) == Len(q) - 1

\* Line 793: 'position': len(transcription_queue), read after the append.
QueuePosition(q) == Len(q)

IsFirstTask_never(q) == FALSE

\* Line 776: is_first_task = len(transcription_queue) == 0, read before the
\* append.
IsFirstTask(q) == Len(q) = 0

\* The task ids of a list of task tuples (task[5]).
QueueIds(q) == [i \in 1..Len(q) |-> q[i].id]

Deregister_keep(keys, id) == keys

\* del active_transcriptions[task_id]
Deregister(keys, id) == keys \ {id}

ClearTiming_keep(keys, id) == keys

\* if task_id in d: del d[task_id], for the two timing dicts
ClearTiming(keys, id) == keys \ {id}

ReleaseIfDevices_always(n, gpu_ids) == n + 1

\* if gpu_ids: release_model_memory(gpu_ids); n counts the calls made so far
ReleaseIfDevices(n, gpu_ids) == IF gpu_ids # <<>> THEN n + 1 ELSE n

\* config.<name>: TRUE when the attribute exists, FALSE when reading it raises.
ConfigHas(name) == name \in ConfigProperties

StatusEvent_completed(status, reason) == [status |-> "completed", reason |-> reason]

PassedLanguage_none(lang) == "None"

\* Lines 431 and 450: language if language != "auto" else None
PassedLanguage(lang) == IF lang = "auto" THEN "None" ELSE lang

\* A task_update event with a terminal status.
StatusEvent(status, reason) == [status |-> status, reason |-> reason]

WithExit_held(holder) == holder

\* The end of a with queue_lock: block: the lock its thread held is free.
WithExit(holder) == "free"

\* os._exit(0) has not been called: the process and its threads exist.
Running == sigpc # "exited"

\* ------------------------------------------------ add_to_queue (producers)

\* add_to_queue, lines 743-775: the request's gpu_ids and language, the
\* file's task tuple, and with queue_lock entered. The steps before the lock
\* touch only the request's own values, so they are taken together with the
\* acquisition. The uuid4 task id is opaque: the model names a task by the
\* position of its append, the moment other threads can first see it.
AddToQueue_NewTask(p) ==
    /\ Running
    /\ ppc[p] = "idle"
    /\ nextId <= MaxTasks
    /\ queue_lock = "free"
    /\ \E g \in DeviceLists, l \in Languages :
          ptask' = [ptask EXCEPT ![p] = [id |-> 0, gpu_ids |-> g, language |-> l]]
    /\ nextId' = nextId + 1
    /\ queue_lock' = "producer"
    /\ ppc' = [ppc EXCEPT ![p] = "locked"]
    /\ UNCHANGED <<signalVars, outsideVars, eventVars, sharedVars, workerVars, spc,
                   appended, dequeued>>

\* Lines 776-805: the append, the 'queued' emit carrying the position and,
\* when the queue was empty before the append, the 'processing' emit; then
\* the lock is left. The emits are taken to deliver: a raising one leaves the
\* with block the same way, the task already appended, with no event.
AddToQueue_Append(p) ==
    /\ Running
    /\ ppc[p] = "locked"
    /\ transcription_queue' =
          QueueAppend(transcription_queue, [ptask[p] EXCEPT !.id = Len(appended) + 1])
    /\ appended' = Append(appended, Len(appended) + 1)
    /\ queued_position' = [queued_position EXCEPT
                              ![Len(appended) + 1] = QueuePosition(transcription_queue')]
    /\ processing_reported' =
          IF IsFirstTask(transcription_queue)
          THEN processing_reported \cup {Len(appended) + 1}
          ELSE processing_reported
    /\ queue_lock' = "free"
    /\ ppc' = [ppc EXCEPT ![p] = "idle"]
    /\ ptask' = [ptask EXCEPT ![p] = NoTask]
    /\ UNCHANGED <<signalVars, outsideVars, active_transcriptions, transcription_start_times,
                   transcription_timers, nextId, workerVars, spc, dequeued>>

\* ------------------------------------------------------ api_status observer

\* api_status, line 1042: with queue_lock entered.
ApiStatus_Lock ==
    /\ Running
    /\ spc = "idle"
    /\ queue_lock = "free"
    /\ queue_lock' = "status"
    /\ spc' = "reading"
    /\ UNCHANGED <<signalVars, outsideVars, eventVars, sharedVars, producerVars, workerVars, appended, dequeued>>

\* api_status, lines 1043-1066: queue_info is built from the two structures,
\* the lock is left.
ApiStatus_Read ==
    /\ Running
    /\ spc = "reading"
    /\ queue_lock' = "free"
    /\ spc' = "idle"
    /\ UNCHANGED <<signalVars, outsideVars, eventVars, sharedVars, producerVars, workerVars, appended, dequeued>>

\* -------------------------------------------------- transcription_worker

\* Line 586: with queue_lock entered.
Worker_Lock ==
    /\ Running
    /\ wpc = "idle"
    /\ queue_lock = "free"
    /\ queue_lock' = "worker"
    /\ wpc' = "pop"
    /\ UNCHANGED <<signalVars, outsideVars, eventVars, sharedVars, producerVars, task, model, language, result, exc,
                   calls, written, statusEvents, spc, appended, dequeued>>

\* Lines 587-593 and 626: pop the head, or task = None and sleep one second.
Worker_Pop ==
    /\ Running
    /\ wpc = "pop"
    /\ queue_lock' = WithExit(queue_lock)
    /\ IF transcription_queue # <<>>
       THEN /\ task' = QueuePop(transcription_queue).item
            /\ transcription_queue' = QueuePop(transcription_queue).rest
            /\ dequeued' = Append(dequeued, QueuePop(transcription_queue).item.id)
            /\ language' = QueuePop(transcription_queue).item.language
            /\ wpc' = "record_start"
       ELSE /\ task' = NoTask
            /\ wpc' = "idle"
            /\ UNCHANGED <<transcription_queue, dequeued, language>>
    /\ UNCHANGED <<signalVars, outsideVars, eventVars, result, exc, calls, written, statusEvents,
                   active_transcriptions, transcription_start_times,
                   transcription_timers, producerVars, model, spc, appended>>

\* Line 596: transcription_start_times[task_id] = time.time()
Worker_RecordStart ==
    /\ Running
    /\ wpc = "record_start"
    /\ transcription_start_times' = transcription_start_times \cup {task.id}
    /\ wpc' = "register"
    /\ UNCHANGED <<signalVars, outsideVars, eventVars, transcription_queue, active_transcriptions, transcription_timers,
                   queue_lock, producerVars, task, model, language, result, exc,
                   calls, written, statusEvents, spc, appended, dequeued>>

\* Lines 598-602: active_transcriptions[task_id] = {...}
Worker_Register ==
    /\ Running
    /\ wpc = "register"
    /\ active_transcriptions' = active_transcriptions \cup {task.id}
    /\ wpc' = "emit_start"
    /\ UNCHANGED <<signalVars, outsideVars, eventVars, transcription_queue, transcription_start_times,
                   transcription_timers, queue_lock, producerVars, task, model,
                   language, result, exc, calls, written, statusEvents, spc,
                   appended, dequeued>>

\* ---------------------------------------------- transcribe_audio_process

\* Lines 463-470: the 'processing' emit; a raising emit enters the except
\* block.
Process_EmitStart ==
    /\ Running
    /\ wpc = "emit_start"
    /\ \E ok \in BOOLEAN :
          IF ok THEN /\ wpc' = "load_model"
                     /\ exc' = exc
                     /\ processing_reported' = processing_reported \cup {task.id}
                ELSE /\ wpc' = "except"
                     /\ exc' = "emit"
                     /\ processing_reported' = processing_reported
    /\ UNCHANGED <<signalVars, outsideVars, queued_position, sharedVars, queue_lock, producerVars, task, model, language,
                   result, calls, written, statusEvents, spc, appended, dequeued>>

\* Lines 473-477: load_model returns the model, or None on any failure, and
\* None raises Exception("无法加载模型").
Process_LoadModel ==
    /\ Running
    /\ wpc = "load_model"
    /\ calls' = [calls EXCEPT !.load = @ + 1]
    /\ \E ok \in BOOLEAN :
          IF ok THEN model' = TRUE /\ wpc' = "detect" /\ exc' = exc
                ELSE model' = FALSE /\ wpc' = "except" /\ exc' = "load"
    /\ UNCHANGED <<signalVars, outsideVars, eventVars, sharedVars, queue_lock, producerVars, task, language, result,
                   written, statusEvents, spc, appended, dequeued>>

\* ---------------------------------------------- transcribe_with_interrupt

\* Lines 399-416: for language "auto" the audio is loaded and detect_language
\* is called; either may raise into the except block of line 446.
Interrupt_Detect ==
    /\ Running
    /\ wpc = "detect"
    /\ IF language = "auto"
       THEN \E outcome \in {"audio_error", "detect_error", "ok"} :
               /\ calls' = [calls EXCEPT !.detect =
                               IF outcome = "audio_error" THEN @ ELSE @ + 1]
               /\ language' = IF outcome = "ok" THEN "detected" ELSE language
               /\ wpc' = IF outcome = "ok" THEN "emit10" ELSE "interrupt_fallback"
       ELSE /\ wpc' = "emit10"
            /\ UNCHANGED <<calls, language>>
    /\ UNCHANGED <<signalVars, outsideVars, eventVars, sharedVars, queue_lock, producerVars, task, model, result, exc,
                   written, statusEvents, spc, appended, dequeued>>

\* Lines 419-427: the progress-10 emit.
Interrupt_Emit10 ==
    /\ Running
    /\ wpc = "emit10"
    /\ \E ok \in BOOLEAN :
          /\ wpc' = IF ok THEN "progress_begin" ELSE "interrupt_fallback"
          /\ processing_reported' =
                IF ok THEN processing_reported \cup {task.id} ELSE processing_reported
    /\ UNCHANGED <<signalVars, outsideVars, queued_position, sharedVars, queue_lock, producerVars, task, model, language,
                   result, exc, calls, written, statusEvents, spc, appended,
                   dequeued>>

\* transcribe_with_progress, lines 258-264: load_audio and the duration; a
\* raise enters the except block of line 390.
Progress_Begin ==
    /\ Running
    /\ wpc = "progress_begin"
    /\ \E audioOk \in BOOLEAN :
          wpc' = IF audioOk THEN "read_config" ELSE "progress_fallback"
    /\ UNCHANGED <<signalVars, outsideVars, eventVars, sharedVars, queue_lock,
                   producerVars, task, model, language, result, exc, calls,
                   written, statusEvents, spc, appended, dequeued>>

\* transcribe_with_progress, line 267: segment_duration =
\* config.SEGMENT_DURATION; the AttributeError of a name class Config does not
\* define enters the except block of line 390, otherwise the window loop of
\* lines 273-312 starts.
Progress_ReadConfig ==
    /\ Running
    /\ wpc = "read_config"
    /\ wpc' = IF ConfigHas("SEGMENT_DURATION") THEN "windows" ELSE "progress_fallback"
    /\ UNCHANGED <<signalVars, outsideVars, eventVars, sharedVars, queue_lock,
                   producerVars, task, model, language, result, exc, calls,
                   written, statusEvents, spc, appended, dequeued>>

\* transcribe_with_progress, lines 390-393: the except block transcribes the
\* whole file; a raise of that call leaves the function.
Progress_Fallback ==
    /\ Running
    /\ wpc = "progress_fallback"
    /\ calls' = [calls EXCEPT !.whole = @ + 1,
                              !.languages = @ \cup {PassedLanguage(language)}]
    /\ \E ok \in BOOLEAN :
          IF ok THEN result' = "text" /\ wpc' = "emit100"
                ELSE result' = result /\ wpc' = "interrupt_fallback"
    /\ UNCHANGED <<signalVars, outsideVars, eventVars, sharedVars, queue_lock, producerVars, task, model, language,
                   exc, written, statusEvents, spc, appended, dequeued>>

\* Lines 436-444: the progress-100 emit, then return result.
Interrupt_Emit100 ==
    /\ Running
    /\ wpc = "emit100"
    /\ \E ok \in BOOLEAN :
          IF ok THEN /\ result' = result
                     /\ wpc' = "check_result"
                     /\ processing_reported' = processing_reported \cup {task.id}
                ELSE /\ result' = "unset"
                     /\ wpc' = "interrupt_fallback"
                     /\ processing_reported' = processing_reported
    /\ UNCHANGED <<signalVars, outsideVars, queued_position, sharedVars, queue_lock, producerVars, task, model, language,
                   exc, calls, written, statusEvents, spc, appended, dequeued>>

\* Lines 446-453: the except block transcribes the whole file; when that
\* raises too the function returns None.
Interrupt_Fallback ==
    /\ Running
    /\ wpc = "interrupt_fallback"
    /\ calls' = [calls EXCEPT !.whole = @ + 1,
                              !.languages = @ \cup {PassedLanguage(language)}]
    /\ \E ok \in BOOLEAN : result' = IF ok THEN "text" ELSE "none"
    /\ wpc' = "check_result"
    /\ UNCHANGED <<signalVars, outsideVars, eventVars, sharedVars, queue_lock, producerVars, task, model, language,
                   exc, written, statusEvents, spc, appended, dequeued>>

\* ------------------------------------- transcribe_audio_process, continued

\* Lines 488-492: a None result returns None (through the finally block).
Process_CheckResult ==
    /\ Running
    /\ wpc = "check_result"
    /\ wpc' = IF result = "none" THEN "finally" ELSE "write"
    /\ UNCHANGED <<signalVars, outsideVars, eventVars, sharedVars, queue_lock, producerVars, task, model, language,
                   result, exc, calls, written, statusEvents, spc, appended,
                   dequeued>>

\* Lines 495-501: the text is written to output_path.
Process_Write ==
    /\ Running
    /\ wpc = "write"
    /\ \E ok \in BOOLEAN :
          IF ok THEN written' = TRUE /\ wpc' = "emit_completed" /\ exc' = exc
                ELSE written' = written /\ wpc' = "except" /\ exc' = "write"
    /\ UNCHANGED <<signalVars, outsideVars, eventVars, sharedVars, queue_lock, producerVars, task, model, language,
                   result, calls, statusEvents, spc, appended, dequeued>>

\* Lines 506-515: the 'completed' emit, then return text.
Process_EmitCompleted ==
    /\ Running
    /\ wpc = "emit_completed"
    /\ statusEvents' = Append(statusEvents, StatusEvent("completed", "none"))
    /\ \E ok \in BOOLEAN :
          IF ok THEN wpc' = "finally" /\ exc' = exc
                ELSE wpc' = "except" /\ exc' = "emit"
    /\ UNCHANGED <<signalVars, outsideVars, eventVars, sharedVars, queue_lock, producerVars, task, model, language,
                   result, calls, written, spc, appended, dequeued>>

\* Lines 517-526: the 'failed' emit carrying str(e), then the raise; a raising
\* emit leaves the block with an exception as well.
Process_Except ==
    /\ Running
    /\ wpc = "except"
    /\ statusEvents' = Append(statusEvents, StatusEvent("failed", exc))
    /\ wpc' = "finally"
    /\ UNCHANGED <<signalVars, outsideVars, eventVars, sharedVars, queue_lock, producerVars, task, model, language,
                   result, exc, calls, written, spc, appended, dequeued>>

\* Line 530: if task_id in active_transcriptions
Finally_Check ==
    /\ Running
    /\ wpc = "finally"
    /\ calls' = [calls EXCEPT !.cleanup = @ + 1]
    /\ wpc' = IF task.id \in active_transcriptions THEN "fin_get" ELSE "fin_times"
    /\ UNCHANGED <<signalVars, outsideVars, eventVars, sharedVars, queue_lock, producerVars, task, model, language,
                   result, exc, written, statusEvents, spc, appended, dequeued>>

\* Lines 531-537: task_info = active_transcriptions[task_id] (KeyError when
\* the entry is gone), then the first release for a non-empty device list.
Finally_Get ==
    /\ Running
    /\ wpc = "fin_get"
    /\ IF task.id \in active_transcriptions
       THEN /\ calls' = [calls EXCEPT !.release = ReleaseIfDevices(@, task.gpu_ids)]
            /\ wpc' = "fin_del"
            /\ exc' = exc
       ELSE /\ calls' = calls
            /\ wpc' = "worker_except"
            /\ exc' = "KeyError"
    /\ UNCHANGED <<signalVars, outsideVars, eventVars, sharedVars, queue_lock, producerVars, task, model, language,
                   result, written, statusEvents, spc, appended, dequeued>>

\* Line 540: del active_transcriptions[task_id] (KeyError when it is gone).
Finally_Del ==
    /\ Running
    /\ wpc = "fin_del"
    /\ IF task.id \in active_transcriptions
       THEN /\ active_transcriptions' = Deregister(active_transcriptions, task.id)
            /\ wpc' = "fin_times"
            /\ exc' = exc
       ELSE /\ active_transcriptions' = active_transcriptions
            /\ wpc' = "worker_except"
            /\ exc' = "KeyError"
    /\ UNCHANGED <<signalVars, outsideVars, eventVars, transcription_queue, transcription_start_times,
                   transcription_timers, queue_lock, producerVars, task, model,
                   language, result, calls, written, statusEvents, spc, appended,
                   dequeued>>

\* Lines 543-547: the task's entries in the two timing dicts are deleted.
Finally_Times ==
    /\ Running
    /\ wpc = "fin_times"
    /\ transcription_start_times' = ClearTiming(transcription_start_times, task.id)
    /\ transcription_timers' = ClearTiming(transcription_timers, task.id)
    /\ wpc' = "fin_model"
    /\ UNCHANGED <<signalVars, outsideVars, eventVars, transcription_queue, active_transcriptions, queue_lock,
                   producerVars, task, model, language, result, exc, calls,
                   written, statusEvents, spc, appended, dequeued>>

\* Lines 550-558: a loaded model is moved to the CPU and dropped.
Finally_Model ==
    /\ Running
    /\ wpc = "fin_model"
    /\ model' = FALSE
    /\ wpc' = "fin_release"
    /\ UNCHANGED <<signalVars, outsideVars, eventVars, sharedVars, queue_lock, producerVars, task, language, result,
                   exc, calls, written, statusEvents, spc, appended, dequeued>>

\* Lines 561-580: the second release for a non-empty device list; the function
\* then returns, or the exception raised at line 526 propagates.
Finally_Release ==
    /\ Running
    /\ wpc = "fin_release"
    /\ calls' = [calls EXCEPT !.release = ReleaseIfDevices(@, task.gpu_ids)]
    /\ wpc' = IF exc # "none" THEN "worker_except" ELSE "after"
    /\ UNCHANGED <<signalVars, outsideVars, eventVars, sharedVars, queue_lock, producerVars, task, model, language,
                   result, exc, written, statusEvents, spc, appended, dequeued>>

\* ----------------------------------------- transcription_worker, continued

\* Lines 606-610: except Exception: the start-time entry is deleted.
Worker_Except ==
    /\ Running
    /\ wpc = "worker_except"
    /\ transcription_start_times' = ClearTiming(transcription_start_times, task.id)
    /\ wpc' = "after"
    /\ UNCHANGED <<signalVars, outsideVars, eventVars, transcription_queue, active_transcriptions, transcription_timers,
                   queue_lock, producerVars, task, model, language, result, exc,
                   calls, written, statusEvents, spc, appended, dequeued>>

\* Line 613: with queue_lock entered.
Worker_LockAfter ==
    /\ Running
    /\ wpc = "after"
    /\ queue_lock = "free"
    /\ queue_lock' = "worker"
    /\ wpc' = "notify"
    /\ UNCHANGED <<signalVars, outsideVars, eventVars, sharedVars, producerVars, task, model, language, result, exc,
                   calls, written, statusEvents, spc, appended, dequeued>>

\* Lines 614-626: for a non-empty queue the 'processing' emit for its head,
\* outside any try block: a raising emit leaves the with block and ends the
\* thread's while loop. Otherwise sleep one second and poll again. The
\* iteration is over: its locals are not read again before the next pop
\* assigns them, and the record of what was done for its task starts afresh.
Worker_Notify ==
    /\ Running
    /\ wpc = "notify"
    /\ queue_lock' = "free"
    /\ IF transcription_queue # <<>>
       THEN \E ok \in BOOLEAN :
               /\ wpc' = IF ok THEN "idle" ELSE "dead"
               /\ processing_reported' =
                     (processing_reported \ {task.id}) \cup
                     (IF ok THEN {transcription_queue[1].id} ELSE {})
       ELSE /\ wpc' = "idle"
            /\ processing_reported' = processing_reported \ {task.id}
    /\ queued_position' = [queued_position EXCEPT ![task.id] = 0]
    /\ language' = "auto"
    /\ result' = "unset"
    /\ exc' = "none"
    /\ calls' = NoCalls
    /\ written' = FALSE
    /\ statusEvents' = <<>>
    /\ task' = NoTask
    /\ UNCHANGED <<signalVars, outsideVars, sharedVars, producerVars, model, spc, appended,
                   dequeued>>

\* ------------------------------------------------------- api_transcribe

\* api_transcribe, lines 910-947, and transcribe_audio_process in the request
\* thread up to load_model, lines 461-477. The task id is a fresh uuid4 that
\* is never registered, so the call touches none of the queue's structures.
\* When the load fails the except and finally blocks run and the request is
\* answered with an error.
ApiTranscribe_Load ==
    /\ Running
    /\ apc = "idle"
    /\ \E loaded \in BOOLEAN :
          /\ api_model' = loaded
          /\ apc' = IF loaded THEN "inference" ELSE "idle"
    /\ UNCHANGED <<signalVars, windowVars, deviceVars, eventVars, sharedVars,
                   queue_lock, producerVars, workerVars, spc, appended, dequeued,
                   gpc, progress_task, answer>>

\* transcribe_audio_process in the request thread from the transcription to
\* the end of its finally block, lines 479-580, where the model is dropped,
\* and the response of lines 949-967.
ApiTranscribe_Finish ==
    /\ Running
    /\ apc = "inference"
    /\ api_model' = FALSE
    /\ apc' = "idle"
    /\ UNCHANGED <<signalVars, windowVars, deviceVars, eventVars, sharedVars,
                   queue_lock, producerVars, workerVars, spc, appended, dequeued,
                   gpc, progress_task, answer>>

\* --------------------------------------------------------- api_progress

\* api_progress, line 1088: task_id in active_transcriptions, read without
\* any lock; a task id that is not registered is answered 'not_found' (lines
\* 1103-1109).
ApiProgress_Lookup(id) ==
    /\ Running
    /\ gpc = "idle"
    /\ IF id \in active_transcriptions
       THEN gpc' = "found" /\ answer' = "none"
       ELSE gpc' = "idle" /\ answer' = "not_found"
    /\ progress_task' = id
    /\ UNCHANGED <<signalVars, windowVars, deviceVars, eventVars, sharedVars,
                   queue_lock, producerVars, workerVars, spc, appended, dequeued,
                   apc, api_model>>

\* Lines 1090-1102: task_id in transcription_start_times chooses between the
\* 'processing' response and the 'queued' response.
ApiProgress_Answer ==
    /\ Running
    /\ gpc = "found"
    /\ answer' = IF progress_task \in transcription_start_times
                 THEN "processing" ELSE "queued"
    /\ gpc' = "idle"
    /\ UNCHANGED <<signalVars, windowVars, deviceVars, eventVars, sharedVars,
                   queue_lock, producerVars, workerVars, spc, appended, dequeued,
                   apc, api_model, progress_task>>

\* ------------------------------------- signal_handler / cleanup_resources

\* Lines 1204-1209 and 1157: SIGINT or SIGTERM arrives; cleanup_resources takes
\* list(active_transcriptions.keys()).
Signal_Begin ==
    /\ sigpc = "none"
    /\ sigKeys' = active_transcriptions
    /\ sigpc' = "loop"
    /\ UNCHANGED <<outsideVars, eventVars, sharedVars, queue_lock, producerVars, workerVars, spc,
                   appended, dequeued>>

\* Lines 1159-1169: task_info = active_transcriptions[task_id] (a KeyError is
\* caught at line 1173 and the loop goes on), then the release for a
\* non-empty device list.
Signal_Get(id) ==
    /\ sigpc = "loop"
    /\ id \in sigKeys
    /\ IF id \in active_transcriptions
       THEN /\ calls' = [calls EXCEPT !.release = ReleaseIfDevices(@, task.gpu_ids)]
            /\ sigpc' = "del"
            /\ sigKeys' = sigKeys
       ELSE /\ calls' = calls
            /\ sigpc' = "loop"
            /\ sigKeys' = sigKeys \ {id}
    /\ UNCHANGED <<outsideVars, eventVars, sharedVars, queue_lock, producerVars, wpc, task, model, language,
                   result, exc, written, statusEvents, spc, appended, dequeued>>

\* Line 1172: del active_transcriptions[task_id] (a KeyError is caught).
Signal_Del(id) ==
    /\ sigpc = "del"
    /\ id \in sigKeys
    /\ active_transcriptions' = Deregister(active_transcriptions, id)
    /\ sigKeys' = sigKeys \ {id}
    /\ sigpc' = "loop"
    /\ UNCHANGED <<outsideVars, eventVars, transcription_queue, transcription_start_times,
                   transcription_timers, queue_lock, producerVars, workerVars, spc,
                   appended, dequeued>>

\* Line 1178: with queue_lock entered, after the loop.
Signal_Lock ==
    /\ sigpc = "loop"
    /\ sigKeys = {}
    /\ queue_lock = "free"
    /\ queue_lock' = "signal"
    /\ sigpc' = "clear"
    /\ UNCHANGED <<outsideVars, eventVars, sharedVars, producerVars, workerVars, spc, sigKeys, appended,
                   dequeued>>

\* Lines 1179-1199: transcription_queue.clear(), the lock is left, the caches
\* are emptied.
Signal_ClearQueue ==
    /\ sigpc = "clear"
    /\ transcription_queue' = <<>>
    /\ queue_lock' = "free"
    /\ sigpc' = "exit"
    /\ UNCHANGED <<outsideVars, eventVars, active_transcriptions, transcription_start_times,
                   transcription_timers, producerVars, workerVars, spc, sigKeys,
                   appended, dequeued>>

\* Lines 1211-1224: socketio.stop() and os._exit(0): every thread ends and
\* the process memory, which holds all of the state, is gone.
Signal_Exit ==
    /\ sigpc = "exit"
    /\ sigpc' = "exited"
    /\ transcription_queue' = <<>>
    /\ active_transcriptions' = {}
    /\ transcription_start_times' = {}
    /\ transcription_timers' = {}
    /\ queue_lock' = "free"
    /\ ppc' = [p \in Producers |-> "idle"]
    /\ ptask' = [p \in Producers |-> NoTask]
    /\ wpc' = "exited"
    /\ task' = NoTask
    /\ model' = FALSE
    /\ language' = "auto"
    /\ result' = "unset"
    /\ exc' = "none"
    /\ calls' = NoCalls
    /\ written' = FALSE
    /\ statusEvents' = <<>>
    /\ spc' = "idle"
    /\ queued_position' = [id \in TaskIds |-> 0]
    /\ processing_reported' = {}
    /\ UNCHANGED <<outsideVars, nextId, sigKeys, appended, dequeued>>

\* ------------------------------ transcribe_with_progress: the window loop

\* Line 268: overlap_duration = 2
overlap_duration == 2

\* Line 273: int(np.ceil(total_duration / segment_duration)), for positive
\* whole numbers.
TotalSegments(D, W) == (D + W - 1) \div W

StartTime_abutting(i, W) == i * W

\* Lines 276-279: start_time of iteration i (from 0).
StartTime(i, W) == IF i > 0 THEN i * W - overlap_duration ELSE i * W

\* Line 281: end_time of iteration i.
EndTime(i, W, D) == Min((i + 1) * W, D)

\* Line 286: the first index of audio_data[start:end] for a list of n
\* elements: a negative start counts from the end of the list.
SliceStart(start, n) == IF start < 0 THEN Max(n + start, 0) ELSE Min(start, n)

\* Lines 275-286: the window of every iteration of the loop, with the second
\* of the audio at which its slice starts.
PlanWindows(D, W) ==
    [k \in 1..TotalSegments(D, W) |->
        [start_time |-> StartTime(k - 1, W),
         end_time |-> EndTime(k - 1, W, D),
         slice_start |-> SliceStart(StartTime(k - 1, W), D)]]

\* Lines 273-286 for one audio and one window length.
Progress_Plan ==
    /\ fpc = "plan"
    /\ plan' = PlanWindows(total_duration, segment_duration)
    /\ fpc' = "planned"
    /\ UNCHANGED <<serviceVars, deviceVars, total_duration, segment_duration, segments,
                   current_progress, progress, merge_index, combined_before,
                   combined_text, all_segments>>

\* Line 298: progress_increment = 80 / total_segments
ProgressIncrement(n) == FloatDivide(ToFloat(80), n)

\* Line 299: current_progress += progress_increment
AddIncrement(current, n) == FloatAdd(current, ProgressIncrement(n))

\* Lines 302-303: int(current_progress / 5) * 5, at most 95.
DisplayProgress(current) == Min(FloatToInt(FloatDivide(current, 5)) * 5, 95)

\* Lines 297-310 of one loop iteration: the progress is advanced and emitted.
Progress_Report ==
    /\ fpc = "report"
    /\ Len(progress) < TotalSegments(total_duration, segment_duration)
    /\ current_progress' =
          AddIncrement(current_progress, TotalSegments(total_duration, segment_duration))
    /\ progress' = Append(progress, DisplayProgress(current_progress'))
    /\ UNCHANGED <<serviceVars, deviceVars, fpc, total_duration, segment_duration, segments,
                   plan, merge_index, combined_before, combined_text, all_segments>>

\* ---------------------------------------------------------- specification

Next ==
    \/ \E p \in Producers : AddToQueue_NewTask(p)
    \/ \E p \in Producers : AddToQueue_Append(p)
    \/ ApiStatus_Lock
    \/ ApiStatus_Read
    \/ Worker_Lock
    \/ Worker_Pop
    \/ Worker_RecordStart
    \/ Worker_Register
    \/ Process_EmitStart
    \/ Process_LoadModel
    \/ Interrupt_Detect
    \/ Interrupt_Emit10
    \/ Progress_Begin
    \/ Progress_ReadConfig
    \/ Progress_Fallback
    \/ Interrupt_Emit100
    \/ Interrupt_Fallback
    \/ Process_CheckResult
    \/ Process_Write
    \/ Process_EmitCompleted
    \/ Process_Except
    \/ Finally_Check
    \/ Finally_Get
    \/ Finally_Del
    \/ Finally_Times
    \/ Finally_Model
    \/ Finally_Release
    \/ Worker_Except
    \/ Worker_LockAfter
    \/ Worker_Notify

\* The service without a shutdown signal.
Spec == Init /\ [][Next]_vars

\* ------------------------- transcribe_with_progress: merging the results
\* A Python str is a sequence of one-character strings.

\* The k-th smallest element of a set of numbers.
Nth(S, k) == CHOOSE x \in S : Cardinality({y \in S : y <= x}) = k

\* str.strip(): without the leading and the trailing blanks.
Strip(s) ==
    LET solid == {i \in 1..Len(s) : s[i] # " "}
    IN  IF solid = {} THEN <<>>
        ELSE SubSeq(s, Nth(solid, 1), Nth(solid, Cardinality(solid)))

\* str.split(): the maximal runs of non-blank characters, in order.
Split(s) ==
    LET starts == {i \in 1..Len(s) : s[i] # " " /\ (i = 1 \/ s[i - 1] = " ")}
        ends == {i \in 1..Len(s) : s[i] # " " /\ (i = Len(s) \/ s[i + 1] = " ")}
    IN  [k \in 1..Cardinality(starts) |-> SubSeq(s, Nth(starts, k), Nth(ends, k))]

\* ' '.join(ws)
RECURSIVE Join(_)
Join(ws) ==
    IF Len(ws) = 0 THEN <<>>
    ELSE IF Len(ws) = 1 THEN ws[1]
    ELSE ws[1] \o <<" ">> \o Join(Tail(ws))

\* s[-n:] for n > 0: the last n characters, all of s when it is shorter.
LastChars(s, n) == SubSeq(s, Max(1, Len(s) - n + 1), Len(s))

\* sub in s, for a non-empty sub.
Contains(sub, s) ==
    \E k \in 1..(Len(s) - Len(sub) + 1) : SubSeq(s, k, k + Len(sub) - 1) = sub

\* s.endswith(' ')
EndsWithBlank(s) == Len(s) > 0 /\ s[Len(s)] = " "

AppendText_noblank(combined, text) == combined \o text

\* Lines 343-345, 354-356 and 362-364: a blank is added unless the merged
\* text ends with one, then the text is added.
AppendText(combined, text) ==
    (IF EndsWithBlank(combined) THEN combined ELSE combined \o <<" ">>) \o text

MaxCheckWords_all(words, last) == Len(words)

\* Line 334: the number of leading words that are tried as an overlap.
MaxCheckWords(words, last) == Min(IF last THEN 5 ELSE 10, Len(words))

\* Lines 337-339: the first j + 1 words are an overlap when they are longer
\* than 3 characters and occur in the last 3 * len(test_phrase) characters
\* of the merged text.
PhraseMatches(combined, words, j) ==
    LET test_phrase == Join(SubSeq(words, 1, j + 1))
    IN  /\ Len(test_phrase) > 3
        /\ Contains(test_phrase, LastChars(combined, Len(test_phrase) * 3))

NoOverlapAppend_drop(combined, current_text) == combined

\* Lines 360-364: no overlap was found and the whole text is added.
NoOverlapAppend(combined, current_text) == AppendText(combined, current_text)

\* Lines 336-364: the loop over j from the given value, and what follows it.
RECURSIVE ScanOverlap(_, _, _, _, _)
ScanOverlap(combined, current_text, words, j, last) ==
    IF j >= MaxCheckWords(words, last)
    THEN NoOverlapAppend(combined, current_text)
    ELSE IF PhraseMatches(combined, words, j)
    THEN LET remaining_text == Join(SubSeq(words, j + 2, Len(words)))
             keep_from == Max(j, Len(words) \div 2)
             kept_text == Join(SubSeq(words, keep_from + 1, Len(words)))
         IN  IF remaining_text # <<>>
             THEN AppendText(combined, remaining_text)
             ELSE IF last /\ j < Len(words) - 1
             THEN IF kept_text # <<>>
                  THEN AppendText(combined, kept_text)
                  ELSE combined
             ELSE ScanOverlap(combined, current_text, words, j + 1, last)
    ELSE ScanOverlap(combined, current_text, words, j + 1, last)

MergeText_restart(combined, text, i, n) == Strip(text)

\* Lines 319-364: the merged text after the result of window i (from 0) of
\* n window results.
MergeText(combined, text, i, n) ==
    LET current_text == Strip(text)
    IN  IF i = 0 THEN current_text
        ELSE IF current_text = <<>> THEN combined
        ELSE ScanOverlap(combined, current_text, Split(current_text), 0, i = n - 1)

BaseTime_unshifted(i, W) == i * W

\* Lines 368-370: base_time of window i, in seconds.
BaseTime(i, W) == IF i > 0 THEN i * W - overlap_duration ELSE i * W

\* Lines 372-379: the sub-segments of window i moved by base_time; those of
\* a later window are kept from i * W - overlap_duration / 2 seconds on.
\* Times are counted in ticks.
AdjustSegments(i, W, subs) ==
    LET adjusted == [k \in 1..Len(subs) |->
                        [start |-> subs[k].start + BaseTime(i, W) * TicksPerSecond,
                         end |-> subs[k].end + BaseTime(i, W) * TicksPerSecond]]
        Kept(seg) ==
            i = 0 \/ 2 * seg.start >= (2 * i * W - overlap_duration) * TicksPerSecond
    IN  SelectSeq(adjusted, Kept)

\* Lines 317-379: one iteration of the merge loop.  Every window result of
\* model.transcribe has the keys 'text' and 'segments'.
Progress_Merge ==
    /\ fpc = "merge"
    /\ merge_index < Len(segments)
    /\ combined_before' = combined_text
    /\ combined_text' = MergeText(combined_text, segments[merge_index + 1].text,
                                  merge_index, Len(segments))
    /\ all_segments' =
          all_segments \o AdjustSegments(merge_index, segment_duration,
                                         segments[merge_index + 1].segments)
    /\ merge_index' = merge_index + 1
    /\ UNCHANGED <<serviceVars, deviceVars, fpc, total_duration, segment_duration, segments,
                   plan, current_progress, progress>>

\* The words of the transcribed texts: a short one and one longer than the
\* 3 characters an overlap needs.
Vocabulary == {<<"a">>, <<"t", "h", "e", "n">>}

\* The sequences of at most k words.
WordSeqs(k) == UNION {[1..m -> Vocabulary] : m \in 0..k}

\* The text whisper gives for a sequence of words: every word follows a
\* blank.
WindowText(ws) == IF ws = <<>> THEN <<>> ELSE <<" ">> \o Join(ws)

\* The number of words, and of sub-segments, in a list of window results.
RECURSIVE WordCount(_)
WordCount(results) ==
    IF Len(results) = 0 THEN 0
    ELSE Len(Split(results[1].text)) + WordCount(Tail(results))

RECURSIVE SubSegmentCount(_)
SubSegmentCount(results) ==
    IF Len(results) = 0 THEN 0
    ELSE Len(results[1].segments) + SubSegmentCount(Tail(results))

\* The window results with a text of at most k words and no sub-segments.
TextResults(k) == {[text |-> WindowText(ws), segments |-> <<>>] : ws \in WordSeqs(k)}

\* The length of window i of audio of D seconds, in ticks.
WindowTicks(i, W, D) == (EndTime(i, W, D) - StartTime(i, W)) * TicksPerSecond

\* The sub-segment lists of one window: at most k sub-segments that start
\* inside the window's audio in non-decreasing order; each lasts one tick or
\* ends with the window.
SubSegmentLists(ticks, k) ==
    {[a \in 1..Len(starts) |-> [start |-> starts[a], end |-> Min(starts[a] + 1, ticks)]] :
        starts \in {s \in UNION {[1..m -> 0..ticks] : m \in 0..k} :
                        \A a \in 1..Len(s) : \A b \in a..Len(s) : s[a] <= s[b]}}

\* The window results with no text and at most k sub-segments inside a
\* window of the given length.
TimedResults(ticks, k) == {[text |-> <<>>, segments |-> subs] : subs \in SubSegmentLists(ticks, k)}

\* Lines 275-295 of one loop iteration: model.transcribe gives one of the
\* results for the window and the result is appended to segments; after the
\* last window the merge loop follows.
Progress_Transcribe(results) ==
    /\ fpc = "transcribe"
    /\ Len(segments) < TotalSegments(total_duration, segment_duration)
    /\ \E segment_result \in results : segments' = Append(segments, segment_result)
    /\ fpc' = IF Len(segments') = TotalSegments(total_duration, segment_duration)
              THEN "merge" ELSE "transcribe"
    /\ UNCHANGED <<serviceVars, deviceVars, total_duration, segment_duration, plan,
                   current_progress, progress, merge_index, combined_before,
                   combined_text, all_segments>>

\* A window transcribed to a text within the bound on words.
Progress_TranscribeText == Progress_Transcribe(TextResults(MaxWords - WordCount(segments)))

\* A window transcribed to sub-segments within the bound on sub-segments.
Progress_TranscribeTimed ==
    Progress_Transcribe(
        TimedResults(WindowTicks(Len(segments), segment_duration, total_duration),
                     MaxSubSegments - SubSegmentCount(segments)))

\* The window loop and the merge loop on the texts of at most MaxWindows full
\* windows.
MergerInit ==
    /\ ServiceInit
    /\ DeviceIdle
    /\ fpc = "transcribe"
    /\ segment_duration = MaxSegmentDuration
    /\ total_duration \in {n * segment_duration : n \in 1..MaxWindows}
    /\ segments = <<>>
    /\ plan = <<>>
    /\ current_progress = ToFloat(15)
    /\ progress = <<>>
    /\ merge_index = 0
    /\ combined_before = <<>>
    /\ combined_text = <<>>
    /\ all_segments = <<>>

MergerNext == Progress_TranscribeText \/ Progress_Merge

SpecMerger == MergerInit /\ [][MergerNext]_vars

\* n times the word w.
Repeat(w, n) == [k \in 1..n |-> w]

\* The window results whose text is some words "a" followed by some words
\* "then", and those whose text is some words "a": long enough for a prefix
\* of more than 5 and of more than 10 words of the second window to occur
\* near the end of the first.
LeadPadResults ==
    {[text |-> WindowText(Repeat(<<"a">>, m) \o Repeat(<<"t", "h", "e", "n">>, n)),
      segments |-> <<>>] : m \in 0..MaxLeadWords, n \in 0..MaxPadWords}

LeadResults ==
    {[text |-> WindowText(Repeat(<<"a">>, m)), segments |-> <<>>] : m \in 0..MaxLeadWords}

\* A window transcribed to a text of the scan inputs.
Progress_TranscribeScan ==
    Progress_Transcribe(IF Len(segments) = 0 THEN LeadPadResults ELSE LeadResults)

\* The window loop and the merge loop on two or three full windows, so that
\* the second window is the final one or is not.
ScanInit ==
    /\ ServiceInit
    /\ DeviceIdle
    /\ fpc = "transcribe"
    /\ segment_duration = MaxSegmentDuration
    /\ total_duration \in {2 * segment_duration, 3 * segment_duration}
    /\ segments = <<>>
    /\ plan = <<>>
    /\ current_progress = ToFloat(15)
    /\ progress = <<>>
    /\ merge_index = 0
    /\ combined_before = <<>>
    /\ combined_text = <<>>
    /\ all_segments = <<>>

ScanNext == Progress_TranscribeScan \/ Progress_Merge

SpecScan == ScanInit /\ [][ScanNext]_vars

\* The window loop and the merge loop on the timestamped results of full
\* windows of at least overlap_duration seconds.
TimestampInit ==
    /\ ServiceInit
    /\ DeviceIdle
    /\ fpc = "transcribe"
    /\ segment_duration \in overlap_duration..MaxSeconds
    /\ total_duration \in {n * segment_duration : n \in 1..MaxWindows}
    /\ segments = <<>>
    /\ plan = <<>>
    /\ current_progress = ToFloat(15)
    /\ progress = <<>>
    /\ merge_index = 0
    /\ combined_before = <<>>
    /\ combined_text = <<>>
    /\ all_segments = <<>>

TimestampNext == Progress_TranscribeTimed \/ Progress_Merge

SpecTimestamps == TimestampInit /\ [][TimestampNext]_vars

\* ----------------------------------- load_model and release_model_memory

LoadTarget_last(ids) ==
    IF ids = <<>> THEN [kind |-> "cpu", index |-> 0]
    ELSE [kind |-> "cuda", index |-> ids[Len(ids)]]

\* Lines 192-197: device = "cpu" for an empty list, f"cuda:{gpu_ids[0]}"
\* otherwise.
LoadTarget(ids) ==
    IF ids = <<>> THEN [kind |-> "cpu", index |-> 0]
    ELSE [kind |-> "cuda", index |-> ids[1]]

\* Line 214: .to(device) succeeds on the CPU and on a CUDA device that exists
\* and works.
Usable(target, cu) ==
    \/ target.kind = "cpu"
    \/ /\ cu.available
       /\ target.index < cu.device_count
       /\ target.index \notin cu.broken

\* Lines 190 and 214-218: the model is returned, and any exception of the
\* body is caught and None returned.
LoadReturn(failed) == IF failed THEN "None" ELSE "model"

\* load_model, lines 179-218, for the device list; whisper.load_model itself
\* may fail (download, weights, memory).
LoadModel ==
    /\ device = NoDevice
    /\ releases = 0
    /\ device' = LoadTarget(gpu_id_list)
    /\ \E loaded \in BOOLEAN :
          returned' = LoadReturn(~loaded \/ ~Usable(LoadTarget(gpu_id_list), cuda))
    /\ UNCHANGED <<serviceVars, windowVars, gpu_id_list, cuda, cached, cached_once,
                   releases>>

\* Lines 233-243: the loop over gpu_ids; the cache of every listed device
\* that exists is emptied, and a failing device raises in its with block.
RECURSIVE ReleaseLoop(_, _, _)
ReleaseLoop(ids, cu, c) ==
    IF ids = <<>> THEN [cached |-> c, failed |-> FALSE]
    ELSE IF ids[1] < cu.device_count
    THEN IF ids[1] \in cu.broken
         THEN [cached |-> c, failed |-> TRUE]
         ELSE ReleaseLoop(Tail(ids), cu, c \ {ids[1]})
    ELSE ReleaseLoop(Tail(ids), cu, c)

\* Lines 229-248: the try block.
ReleaseBody(ids, cu, c) ==
    IF ids # <<>> /\ cu.available
    THEN ReleaseLoop(ids, cu, c)
    ELSE [cached |-> c, failed |-> FALSE]

ReleaseReturn_raise(failed) == IF failed THEN "raised" ELSE "returned"

\* Lines 227 and 250-251: an exception of the body is caught and logged.
ReleaseReturn(failed) == "returned"

\* release_model_memory, lines 220-251, called at most twice in a row with
\* the same list.
ReleaseModelMemory ==
    /\ releases < 2
    /\ cached' = ReleaseBody(gpu_id_list, cuda, cached).cached
    /\ returned' = ReleaseReturn(ReleaseBody(gpu_id_list, cuda, cached).failed)
    /\ cached_once' = IF releases = 0 THEN cached' ELSE cached_once
    /\ releases' = releases + 1
    /\ UNCHANGED <<serviceVars, windowVars, gpu_id_list, cuda, device>>

\* The device lists of a request.
DeviceIdLists == UNION {[1..n -> 0..MaxDevices] : n \in 0..MaxDeviceList}

\* The states of torch.cuda: without CUDA there is no device.
CudaStates ==
    {[available |-> a, device_count |-> n, broken |-> b] :
        a \in BOOLEAN, n \in 0..MaxDevices, b \in SUBSET (0..(MaxDevices - 1))}

\* The two functions on every device list and CUDA state in the bounds.
DeviceInit ==
    /\ ServiceInit
    /\ WindowInit
    /\ gpu_id_list \in DeviceIdLists
    /\ cuda \in {cu \in CudaStates :
                    /\ cu.broken \subseteq 0..(cu.device_count - 1)
                    /\ ~cu.available => cu.device_count = 0}
    /\ cached \in SUBSET (0..(cuda.device_count - 1))
    /\ cached_once = {}
    /\ releases = 0
    /\ device = NoDevice
    /\ returned = "none"

DeviceNext == LoadModel \/ ReleaseModelMemory

SpecDevice == DeviceInit /\ [][DeviceNext]_vars

\* The service with /api/transcribe requests, which flask-socketio serves in
\* threads of their own (async_mode='threading').
ApiNext ==
    \/ Next
    \/ ApiTranscribe_Load
    \/ ApiTranscribe_Finish

SpecApi == Init /\ [][ApiNext]_vars

\* The service with /api/progress/<task_id> requests, served in threads of
\* their own as well.
ProgressApiNext ==
    \/ Next
    \/ \E id \in TaskIds : ApiProgress_Lookup(id)
    \/ ApiProgress_Answer

SpecProgressApi == Init /\ [][ProgressApiNext]_vars

\* The window planner on every audio length and window length in the bounds.
PlannerInit ==
    /\ ServiceInit
    /\ DeviceIdle
    /\ fpc = "plan"
    /\ total_duration \in 1..MaxDuration
    /\ segment_duration \in 1..MaxSegmentDuration
    /\ segments = <<>>
    /\ plan = <<>>
    /\ current_progress = ToFloat(15)
    /\ progress = <<>>
    /\ merge_index = 0
    /\ combined_before = <<>>
    /\ combined_text = <<>>
    /\ all_segments = <<>>

PlannerNext == Progress_Plan

SpecPlanner == PlannerInit /\ [][PlannerNext]_vars

\* The progress reports of the window loop for every window count the
\* audio lengths and window lengths of the bounds give.
ProgressInit ==
    /\ ServiceInit
    /\ DeviceIdle
    /\ fpc = "report"
    /\ total_duration \in 1..MaxDuration
    /\ segment_duration \in 1..MaxSegmentDuration
    /\ segments = <<>>
    /\ plan = <<>>
    /\ current_progress = ToFloat(15)
    /\ progress = <<>>
    /\ merge_index = 0
    /\ combined_before = <<>>
    /\ combined_text = <<>>
    /\ all_segments = <<>>

ProgressNext == Progress_Report

SpecProgress == ProgressInit /\ [][ProgressNext]_vars

\* The service with a shutdown signal arriving at any moment; after os._exit
\* no thread takes a step.
NextShutdown ==
    \/ Next
    \/ Signal_Begin
    \/ \E id \in TaskIds : Signal_Get(id)
    \/ \E id \in TaskIds : Signal_Del(id)
    \/ Signal_Lock
    \/ Signal_ClearQueue
    \/ Signal_Exit

SpecShutdown == Init /\ [][NextShutdown]_vars


\* ------------------------------------------------------------ properties

IsPrefix(s, t) == Len(s) <= Len(t) /\ \A i \in 1..Len(s) : s[i] = t[i]

\* The worker is processing its task and has not reached the finally block.
Unfinished ==
    wpc \in {"record_start", "register", "emit_start", "load_model", "detect",
             "emit10", "progress_begin", "read_config", "windows",
             "progress_fallback", "emit100",
             "interrupt_fallback", "check_result", "write", "emit_completed",
             "except"}

\* transcribe_audio_process has returned or raised for the worker's task.
Processed == wpc \in {"worker_except", "after", "notify"}

\* C1: the worker pops tasks in exactly the order of their appends: the pop
\* history is always a prefix of the append history, so no task is popped
\* before one appended earlier.
C1_FifoOrder == IsPrefix(dequeued, appended)

C1_Witness ==
    /\ Len(dequeued) >= 2
    /\ dequeued[2] = appended[2]

\* C2: without a shutdown signal every appended task is either still queued
\* or was popped exactly once: the pop history followed by the queue is the
\* append history, and a failed task is not in the queue again.
C2_ExactlyOnce == dequeued \o QueueIds(transcription_queue) = appended

C2_Witness ==
    /\ wpc = "after"
    /\ exc # "none"
    /\ transcription_queue # <<>>

\* C3: active_transcriptions never holds more than one task, and no task id
\* is in transcription_queue and in active_transcriptions at once.
C3_AtMostOneActive ==
    /\ Cardinality(active_transcriptions) <= 1
    /\ \A i \in 1..Len(transcription_queue) :
          transcription_queue[i].id \notin active_transcriptions

C3_Witness ==
    /\ active_transcriptions # {}
    /\ transcription_queue # <<>>

\* C4: a thread holding queue_lock (api_status) never sees a task that has
\* left the queue, is not finished, and is not in active_transcriptions.
C4_AtomicHandover ==
    (queue_lock = "status" /\ Unfinished) => task.id \in active_transcriptions

\* C5 as stated: after every task, whatever its outcome and device list,
\* release_model_memory was invoked exactly once for it.
C5_ReleaseExactlyOnce == (wpc = "after") => calls.release = 1

\* C5 amended: without a shutdown signal, after every task and whatever its
\* outcome, the finally block ran exactly once and release_model_memory was
\* invoked exactly twice for a non-empty device list and never for an empty
\* one.
C5_ReleaseTwiceOrNever ==
    (wpc = "after") =>
        /\ calls.cleanup = 1
        /\ calls.release = IF task.gpu_ids # <<>> THEN 2 ELSE 0

C5_Witness ==
    /\ wpc = "after"
    /\ task.gpu_ids # <<>>
    /\ exc = "load"
    /\ calls.release = 2

\* C6: when the worker attempts its next dequeue, no task it has popped is in
\* active_transcriptions, transcription_start_times or transcription_timers.
C6_CleanupBeforeNextDequeue ==
    (wpc \in {"idle", "pop"}) =>
        \A i \in 1..Len(dequeued) :
            dequeued[i] \notin (active_transcriptions \cup transcription_start_times
                                \cup transcription_timers)

C6_Witness ==
    /\ wpc = "pop"
    /\ Len(dequeued) >= 1
    /\ sigpc = "loop"

\* C7: no failure stops the worker: after every task it returns to polling
\* the queue, so the worker thread never ends.
C7_WorkerNeverStops == wpc # "dead"

\* C8: when load_model fails for a task, a 'failed' event with the load
\* failure as reason is emitted, detection and transcription are never
\* invoked, nothing is written, and the worker goes on to poll for the next
\* queued task.
C8_LoadFailureIsolated ==
    /\ [](((exc = "load") /\ Processed) =>
            /\ statusEvents = <<StatusEvent("failed", "load")>>
            /\ calls.detect = 0
            /\ calls.whole = 0
            /\ ~written)
    /\ [][((exc = "load") /\ wpc = "notify") => (wpc' = "idle")]_vars

\* C9: the whole file is transcribed in one non-segmented call at most once
\* per task.
C9_AtMostOneFallback == calls.whole <= 1

\* C10: every task ends with exactly one terminal status event; when the
\* windowed transcription and its fallback both failed that event is
\* 'failed'.
C10_OneTerminalEvent ==
    Processed =>
        /\ Len(statusEvents) = 1
        /\ (result = "none" => statusEvents[1].status = "failed")

\* The worker holds a popped task whose finally block has not completed.
CleanupPending ==
    \/ Unfinished
    \/ wpc \in {"finally", "fin_get", "fin_del", "fin_times", "fin_model", "fin_release"}

\* The tasks reported 'processing' with no terminal event since.
OpenProcessing ==
    {id \in processing_reported : ~(id = task.id /\ statusEvents # <<>>)}

\* C11: while the worker holds a task whose cleanup has not run, every task
\* waiting in the queue was reported at a position of 2 or more and has had no
\* 'processing' event; and at most one task at a time has been reported
\* 'processing' without a later terminal event.
C11_SecondTaskWaits ==
    /\ CleanupPending =>
          \A i \in 1..Len(transcription_queue) :
             /\ queued_position[transcription_queue[i].id] >= 2
             /\ transcription_queue[i].id \notin processing_reported
    /\ Cardinality(OpenProcessing) <= 1

\* An enqueue step: the task that had no 'queued' event gets one.
Enqueued(id) == queued_position[id] = 0 /\ queued_position'[id] # 0

\* The position reported by an enqueue is the queue length right after the
\* append, the new task being the last element.
PositionIsLengthAtAppend ==
    \A id \in TaskIds :
       Enqueued(id) =>
          /\ transcription_queue' # <<>>
          /\ transcription_queue'[Len(transcription_queue')].id = id
          /\ queued_position'[id] = Len(transcription_queue')

\* C12 as stated: every enqueue reports the queue length right after its
\* append, and no two tasks that are both still queued were reported at the
\* same position.
C12_PositionsDistinct ==
    /\ [][PositionIsLengthAtAppend]_vars
    /\ [](\A i, j \in 1..Len(transcription_queue) :
            i # j => queued_position[transcription_queue[i].id]
                        # queued_position[transcription_queue[j].id])

\* C12 amended: every enqueue reports the queue length right after its
\* append; the reported position is never updated, so for a task still queued
\* it is at least the task's current index in the queue.
C12_PositionAtLeastIndex ==
    /\ [][PositionIsLengthAtAppend]_vars
    /\ [](\A i \in 1..Len(transcription_queue) :
            queued_position[transcription_queue[i].id] >= i)

\* Two tasks appended with a dequeue between them wait together, both
\* reported at position 2.
C12_Witness ==
    /\ Len(transcription_queue) = 2
    /\ queued_position[transcription_queue[1].id] = 2
    /\ queued_position[transcription_queue[2].id] = 2

ClampedStart(i, W) == Max(0, i * W - (IF i > 0 THEN 2 ELSE 0))

\* C13: for every audio length D > 0 and window length W > 0 the planner
\* produces ceil(D/W) windows, window i (from 0) spans [max(0, i*W - 2*[i>0]),
\* min((i+1)*W, D)] and starts and ends within [0, D]; D = 75 and W = 30 give
\* [0,30], [28,60], [58,75].
C13_WindowPlan ==
    fpc = "planned" =>
       /\ Len(plan) = TotalSegments(total_duration, segment_duration)
       /\ \A k \in 1..Len(plan) :
             /\ plan[k].start_time = ClampedStart(k - 1, segment_duration)
             /\ plan[k].slice_start = ClampedStart(k - 1, segment_duration)
             /\ plan[k].end_time = Min(k * segment_duration, total_duration)
             /\ 0 <= plan[k].start_time /\ plan[k].start_time <= total_duration
             /\ 0 <= plan[k].end_time /\ plan[k].end_time <= total_duration
       /\ (total_duration = 75 /\ segment_duration = 30) =>
             <<plan[1].start_time, plan[1].end_time, plan[2].start_time,
               plan[2].end_time, plan[3].start_time, plan[3].end_time>>
                = <<0, 30, 28, 60, 58, 75>>

\* C15: with n planned windows the progress emitted after window k is
\* min(95, 5*floor((15 + 80*k/n)/5)); it is a multiple of 5 within [15, 95],
\* never decreases from one window to the next, and is 95 after the last
\* window.
C15_ProgressFormula ==
    LET n == TotalSegments(total_duration, segment_duration)
    IN  fpc = "report" =>
           \A k \in 1..Len(progress) :
              /\ progress[k] = Min(95, 5 * ((15 * n + 80 * k) \div (5 * n)))
              /\ progress[k] % 5 = 0
              /\ 15 <= progress[k] /\ progress[k] <= 95
              /\ (k > 1 => progress[k - 1] <= progress[k])
              /\ (k = n => progress[k] = 95)

\* The words of the window result merged last, and of the merged text before
\* that merge.
LastWords == Split(Strip(segments[merge_index].text))

WordsBefore == Split(combined_before)

\* C16: when a window after the first begins with the last 4 words of the
\* merged text, merging it adds exactly the words after those 4, so that none
\* of the 4 words is repeated.
C16_FourWordOverlap ==
    (/\ fpc = "merge"
     /\ merge_index >= 2
     /\ Len(LastWords) >= 4
     /\ Len(WordsBefore) >= 4
     /\ SubSeq(LastWords, 1, 4) = SubSeq(WordsBefore, Len(WordsBefore) - 3, Len(WordsBefore)))
    => combined_text =
          (IF Len(LastWords) = 4 THEN combined_before
           ELSE combined_before \o <<" ">> \o Join(SubSeq(LastWords, 5, Len(LastWords))))

\* The stripped texts of the window results.
Texts == [k \in 1..Len(segments) |-> Strip(segments[k].text)]

\* The merged text after the first k window results.
RECURSIVE MergedAfter(_)
MergedAfter(k) ==
    IF k = 0 THEN <<>>
    ELSE MergeText(MergedAfter(k - 1), segments[k].text, k - 1, Len(segments))

\* Some scanned prefix of window result k (from 1) matches the merged text.
Matched(k) ==
    \E j \in 0..(MaxCheckWords(Split(Texts[k]), k = Len(segments)) - 1) :
        PhraseMatches(MergedAfter(k - 1), Split(Texts[k]), j)

\* All window results are merged and no scanned prefix of any of them matched.
MergedWithoutMatch ==
    /\ fpc = "merge"
    /\ merge_index = Len(segments)
    /\ \A k \in 2..Len(segments) : ~Matched(k)

\* Every non-empty text after a blank.
RECURSIVE BlankBeforeEach(_)
BlankBeforeEach(texts) ==
    IF Len(texts) = 0 THEN <<>>
    ELSE (IF texts[1] = <<>> THEN <<>> ELSE <<" ">> \o texts[1])
             \o BlankBeforeEach(Tail(texts))

\* C17 as stated: when no scanned prefix of any window matches, the merged
\* text is the window texts joined in order with one blank between
\* consecutive windows, also when some window's text is empty.
C17_JoinedTexts == MergedWithoutMatch => combined_text = Join(Texts)

\* C17 amended: when no scanned prefix of any window matches, the merged
\* text is the first window's text followed, for every later window with a
\* non-empty text, by one blank and that text.
C17_JoinedNonEmpty ==
    MergedWithoutMatch => combined_text = Texts[1] \o BlankBeforeEach(Tail(Texts))

\* Three windows were merged without a match, the middle one with an empty
\* text.
C17_Witness ==
    /\ MergedWithoutMatch
    /\ Len(segments) = 3
    /\ Texts[1] # <<>>
    /\ Texts[2] = <<>>
    /\ Texts[3] # <<>>

\* The final window result was merged last.
FinalMerged == fpc = "merge" /\ merge_index >= 1 /\ merge_index = Len(segments)

\* C18: a final window with a non-empty text makes the merged text strictly
\* longer, also when a matching prefix covers every word of the window.
C18_FinalWindowContributes ==
    (FinalMerged /\ Texts[merge_index] # <<>>)
    => Len(combined_text) > Len(combined_before)

\* A final window after the first was merged whose only matching prefix is
\* the one of all its words.
C18_Witness ==
    /\ FinalMerged
    /\ merge_index >= 2
    /\ Len(LastWords) >= 1
    /\ Len(LastWords) <= MaxCheckWords(LastWords, TRUE)
    /\ PhraseMatches(combined_before, LastWords, Len(LastWords) - 1)
    /\ \A j \in 0..(Len(LastWords) - 2) : ~PhraseMatches(combined_before, LastWords, j)

\* C19: when no scanned prefix of the final window (after the first) matches
\* the merged text, only the second half of the window's words is added.
C19_FinalWindowHalf ==
    (/\ FinalMerged
     /\ merge_index >= 2
     /\ Texts[merge_index] # <<>>
     /\ ~Matched(merge_index))
    => combined_text =
          AppendText(combined_before,
                     Join(SubSeq(LastWords, Len(LastWords) \div 2 + 1, Len(LastWords))))

\* C20: the start times of the merged sub-segments never decrease, for
\* window results whose sub-segments start inside the window's audio in
\* non-decreasing order.
C20_StartsNonDecreasing ==
    fpc = "merge"
    => \A a \in 1..Len(all_segments) : \A b \in a..Len(all_segments) :
           all_segments[a].start <= all_segments[b].start

\* The sub-segments of window result k (from 1) moved by shift ticks, without
\* those of a later window that start before the given tick.
ShiftedFrom(k, shift, from) ==
    LET subs == segments[k].segments
        moved == [a \in 1..Len(subs) |->
                     [start |-> subs[a].start + shift, end |-> subs[a].end + shift]]
        Late(seg) == k = 1 \/ seg.start >= from
    IN  SelectSeq(moved, Late)

\* The sub-segments of the first k window results, those of window i (from
\* 0) moved by i * W seconds less the given number of seconds for i > 0, and
\* kept from i * W - 1 seconds on.
RECURSIVE ShiftedUpTo(_, _)
ShiftedUpTo(k, less) ==
    IF k = 0 THEN <<>>
    ELSE ShiftedUpTo(k - 1, less)
            \o ShiftedFrom(k,
                    ((k - 1) * segment_duration - (IF k > 1 THEN less ELSE 0))
                        * TicksPerSecond,
                    ((k - 1) * segment_duration - 1) * TicksPerSecond)

\* C21 as stated: the sub-segments of window i are moved by i * W seconds,
\* those of a window i > 0 are dropped exactly when the moved start is before
\* i * W - 1 seconds, and none of window 0 is dropped.
C21_ShiftByWindowStart ==
    fpc = "merge" => all_segments = ShiftedUpTo(merge_index, 0)

\* C21 amended: the sub-segments of a window i > 0 are moved by
\* i * W - overlap_duration seconds, those of window 0 are not moved; those
\* of a window i > 0 are dropped exactly when the moved start is before
\* i * W - 1 seconds, and none of window 0 is dropped.
C21_ShiftByAudioStart ==
    fpc = "merge" => all_segments = ShiftedUpTo(merge_index, overlap_duration)

\* A window after the first was merged, one of its sub-segments dropped and
\* one kept.
C21_Witness ==
    /\ fpc = "merge"
    /\ merge_index = 2
    /\ Len(segments[1].segments) >= 1
    /\ Len(all_segments) > Len(segments[1].segments)
    /\ Len(all_segments) < Len(segments[1].segments) + Len(segments[2].segments)

\* C22: release_model_memory never raises to its caller, and a second call
\* in a row with the same device ids leaves the allocator caches as the first
\* call left them.
C22_ReleaseQuietIdempotent ==
    /\ releases >= 1 => returned = "returned"
    /\ releases = 2 => cached = cached_once

\* Released twice: the first listed device exists and works, the second
\* failed inside the function both times and its cache is left.
C22_Witness ==
    /\ releases = 2
    /\ cuda.available
    /\ Len(gpu_id_list) = 2
    /\ gpu_id_list[1] < cuda.device_count
    /\ gpu_id_list[1] \notin cuda.broken
    /\ gpu_id_list[2] \in cuda.broken
    /\ gpu_id_list[2] \in cached

\* C23: for every task the worker processes load_model is invoked exactly
\* once, before any detect_language or transcribe call of the task, and the
\* model is no longer held once the task's cleanup has finished.
C23_ExactlyOnceAcquisition ==
    /\ Processed => calls.load = 1
    /\ (calls.detect > 0 \/ calls.whole > 0) => calls.load = 1
    /\ calls.load <= 1
    /\ Processed => ~model

\* C24: at most one execution of transcribe_audio_process is between its
\* model load and its cleanup, so at most one model is loaded at any time,
\* also when /api/transcribe requests arrive while the worker processes a
\* task.
C24_OneInferenceContext == ~(model /\ api_model)

\* C25: for audio no longer than one window exactly one window is
\* transcribed, and the merged text, which is the text written to the output
\* path, is the text of that one result character for character.
C25_SingleWindowVerbatim ==
    (fpc = "merge" /\ total_duration <= segment_duration)
    => /\ Len(segments) = 1
       /\ merge_index = 1 => combined_text = segments[1].text

\* C26: a 'completed' event is emitted for a task only after its text has
\* been written to the output path; when the write fails no 'completed'
\* event is emitted and the task ends with a 'failed' event.
C26_CompletedAfterWrite ==
    /\ \A i \in 1..Len(statusEvents) :
          statusEvents[i].status = "completed" => written
    /\ (exc = "write" /\ Processed)
       => statusEvents = <<StatusEvent("failed", "write")>>

\* A task whose write failed has been processed.
C26_Witness ==
    /\ exc = "write"
    /\ Processed
    /\ ~written

\* C27: a status emit that raises never becomes the reason a task fails and
\* never ends the worker thread.
C27_EmitFailureHarmless ==
    /\ exc # "emit"
    /\ wpc # "dead"

\* C28: the worker never holds queue_lock from the pop of a task to the end
\* of its processing, so not during a model load, a language detection or a
\* transcribe call, and a producer can take the lock meanwhile.
C28_NoLockDuringInference ==
    (Unfinished \/ wpc \in {"finally", "fin_get", "fin_del", "fin_times",
                             "fin_model", "fin_release", "worker_except"})
    => queue_lock # "worker"

\* A producer holds the lock while the worker is in a transcribe call.
C28_Witness ==
    /\ wpc \in {"progress_fallback", "interrupt_fallback"}
    /\ model
    /\ queue_lock = "producer"

Loaded == device # NoDevice /\ releases = 0

\* C30: load_model moves the model to the first listed device, or to the CPU
\* for an empty list, whatever other ids are listed; it returns the model or,
\* on any failure, None, and never raises.
C30_LoadFirstDevice ==
    Loaded =>
        /\ gpu_id_list = <<>> => device = [kind |-> "cpu", index |-> 0]
        /\ gpu_id_list # <<>> => device = [kind |-> "cuda", index |-> gpu_id_list[1]]
        /\ returned \in {"model", "None"}
        /\ returned = "model" => Usable(device, cuda)

\* A model was loaded to the first listed device although the second listed
\* id names no device.
C30_Witness ==
    /\ Loaded
    /\ Len(gpu_id_list) = 2
    /\ gpu_id_list[2] >= cuda.device_count
    /\ gpu_id_list[1] # gpu_id_list[2]
    /\ returned = "model"

\* C31: at the step on which cleanup_resources returns, transcription_queue
\* is empty and active_transcriptions has no entry, whatever the worker and
\* the producers were doing meanwhile.
C31_CleanupLeavesNothing ==
    [][Signal_ClearQueue =>
          (transcription_queue' = <<>> /\ active_transcriptions' = {})]_vars

\* C32: on the step that ends a task's iteration, a non-empty queue gets a
\* 'processing' event for its head and the worker returns to polling, an
\* empty queue gets no event; and without a shutdown the head of the queue
\* changes only by the worker's pop, so the notified task is the next one
\* dequeued.
C32_NextTaskNotified ==
    /\ [][Worker_Notify =>
             IF transcription_queue # <<>>
             THEN /\ transcription_queue[1].id \in processing_reported'
                  /\ wpc' = "idle"
             ELSE processing_reported' \subseteq processing_reported]_vars
    /\ [][(transcription_queue # <<>> /\ transcription_queue' # transcription_queue)
             => \/ /\ transcription_queue' # <<>>
                   /\ transcription_queue'[1] = transcription_queue[1]
                \/ /\ Worker_Pop
                   /\ task' = transcription_queue[1]]_vars

\* The first n words of the window result merged last, joined by blanks.
LastPrefix(n) == Join(SubSeq(LastWords, 1, n))

\* The prefixes of at most k words of that window result that are longer than
\* 3 characters and occur in the last 3 * len(prefix) characters of the merged
\* text, by their numbers of words.
PrefixesNearTail(k) ==
    {n \in 1..Min(k, Len(LastWords)) :
        /\ Len(LastPrefix(n)) > 3
        /\ Contains(LastPrefix(n), LastChars(combined_before, 3 * Len(LastPrefix(n))))}

\* C33: merging a window after the first leaves out of its text nothing, or
\* a prefix that is among its first min(K, wordCount) words, K = 5 for the
\* final window and 10 otherwise, is longer than 3 characters and occurs in
\* the last 3 * len(prefix) characters of the merged text; what remains
\* is added after one blank.
C33_ScanBounds ==
    (fpc = "merge" /\ merge_index >= 2) =>
        IF LastWords = <<>> THEN combined_text = combined_before
        ELSE \E n \in {0} \cup (PrefixesNearTail(IF merge_index = Len(segments)
                                                  THEN 5 ELSE 10) \ {Len(LastWords)}) :
                combined_text =
                    AppendText(combined_before,
                               Join(SubSeq(LastWords, n + 1, Len(LastWords))))

\* A non-final window was merged whose prefix of 11 words occurs near the end
\* of the merged text while no shorter prefix counts, and all of its text was
\* added.
C33_Witness ==
    /\ fpc = "merge"
    /\ merge_index = 2
    /\ Len(segments) = 3
    /\ PrefixesNearTail(10) = {}
    /\ 11 \in PrefixesNearTail(Len(LastWords))
    /\ Len(LastWords) > 11
    /\ combined_text = AppendText(combined_before, Join(LastWords))

\* C34: every task reported 'processing' has had its 'queued' event, and
\* once a task has a 'completed' or 'failed' event no further task_update is
\* emitted for it: no 'processing' event and no second terminal event.
C34_StatusEventOrder ==
    /\ [](\A id \in processing_reported : queued_position[id] >= 1)
    /\ [][statusEvents # <<>> =>
             /\ statusEvents' \in {statusEvents, <<>>}
             /\ ~(Process_EmitStart \/ Interrupt_Emit10 \/ Interrupt_Emit100)]_vars

\* C35: every task id in active_transcriptions is in
\* transcription_start_times, and api_progress, which gives the 'queued'
\* response only for a task id it has found in active_transcriptions, never
\* gives it.
C35_ActiveHasStartTime ==
    /\ active_transcriptions \subseteq transcription_start_times
    /\ answer # "queued"

\* C36: the merged text before merging a window result is a prefix of the
\* merged text after merging it.
C36_MergerOnlyAppends ==
    (fpc = "merge" /\ merge_index >= 1) => IsPrefix(combined_before, combined_text)

\* A window after the first was merged with a matching prefix left out, onto
\* a merged text that is not empty.
C36_Witness ==
    /\ fpc = "merge"
    /\ merge_index >= 2
    /\ combined_before # <<>>
    /\ Matched(merge_index)
    /\ Len(combined_text) > Len(combined_before)
    /\ Len(combined_text) < Len(combined_before) + 1 + Len(Texts[merge_index])

\* C37: for a window length of 2 seconds or more every planned window is
\* non-empty, the first starts at 0 and is sliced from the start of the
\* audio, the last ends with the audio, and every later window starts, and
\* is sliced from, exactly 2 seconds before the end of the window before it.
C37_WindowsCoverAudio ==
    (fpc = "planned" /\ segment_duration >= 2) =>
        /\ Len(plan) >= 1
        /\ \A k \in 1..Len(plan) : plan[k].start_time < plan[k].end_time
        /\ plan[1].start_time = 0
        /\ plan[Len(plan)].end_time = total_duration
        /\ \A k \in 2..Len(plan) : plan[k].start_time = plan[k - 1].end_time - 2
        /\ \A k \in 1..Len(plan) : plan[k].slice_start = plan[k].start_time

\* Windows of the shortest length in the claim were planned, the last one
\* shorter than the others.
C37_Witness ==
    /\ fpc = "planned"
    /\ segment_duration = 2
    /\ Len(plan) >= 3
    /\ total_duration % segment_duration # 0

\* C38: also with cleanup_resources interleaved, the finally block of the
\* worker's task does not raise and has run to its end when the worker goes
\* on: the task's timing entries are removed and the model is off the device
\* and dropped.
C38_WorkerCleanupUnderShutdown ==
    (wpc \in {"after", "notify"}) =>
        /\ exc # "KeyError"
        /\ ~model
        /\ task.id \notin (transcription_start_times \cup transcription_timers)

==========================================================================
